---- MODULE Spec2Model ----
(***************************************************************************)
(* Replay memory of examples/AutomaticViewPlanning/DQN/expreplay.py:       *)
(* class ReplayMemory, a ring of (state, action, reward, isOver)           *)
(* transitions held in four parallel arrays, with a bounded deque of the   *)
(* recent non-terminal transitions.                                        *)
(*                                                                         *)
(* Arrays are functions on 0..max_size-1 (numpy indexing is 0-based); a    *)
(* numpy slice is a sequence (1-based), so frame p of a window is element  *)
(* p+1 of the sequence.  A frame (one state array of shape state_shape) is *)
(* one number: 0 is the zero-filled frame, and the frame of the n-th       *)
(* appended transition is n, so that every stored frame is told apart      *)
(* from every other and from zero padding.  The code never branches on a   *)
(* frame, an action or a reward; it branches on isOver only.               *)
(***************************************************************************)
EXTENDS Integers, Sequences, FiniteSets, TLC

\* Bound of the model: the number of append calls of one run.
MaxAppends == 8

\* (max_size, history_len) pairs given to ReplayMemory.__init__.
Configs == { <<3, 1>>, <<4, 2>>, <<4, 3>>, <<5, 2>>, <<5, 3>> }

\* What one player.step(act) gives _populate_exp to append: the action taken
\* with the reward the player returned for it, and whether the episode ended.
Steps == { <<0, -1>>, <<1, 1>> } \X BOOLEAN

\* np.zeros(state_shape): a zero-filled frame.
ZeroFrame == 0

VARIABLES
    max_size,      \* self.max_size
    history_len,   \* self.history_len
    state,         \* self.state   [0..max_size-1 -> frame]
    action,        \* self.action
    reward,        \* self.reward
    isOver,        \* self.isOver
    curr_size,     \* self._curr_size
    curr_pos,      \* self._curr_pos
    hist,          \* self._hist, deque(maxlen = history_len - 1)
    appended,      \* history: the last max_size Experiences given to append, oldest first
    n,             \* history: number of append calls so far
    sinceOver,     \* history: number of appends since the last terminal append
    last,          \* the last call and what it returned
    \* ExpReplay: its parameters, its threads and what they share
    init_memory_size,   \* self.init_memory_size
    update_frequency,   \* self.update_frequency
    batch_size,         \* self.batch_size
    flag,          \* self._init_memory_flag (threading.Event) is set
    jobs,          \* number of tokens in self._populate_job_queue
    mainPc,        \* the thread that runs _before_train
    simPc,         \* SimulatorThread
    simLeft,       \* iterations left of "for _ in range(self.update_frequency)"
    gdPc,          \* the thread that iterates get_data
    gdTodo,        \* logical indices drawn for the batch and not yet sampled
    gdIdx,         \* sample in progress: its physical index and the size it read
    gdSeen,        \* history: the window as stored when the index was computed
    gdTorn,        \* history: a sample of the batch read a window that had changed
    batches,       \* history: number of batches yielded
    tokensPut,     \* history: number of tokens put by get_data
    simAppends,    \* history: number of appends made by SimulatorThread
    \* eval_with_funcs: its arguments, its workers and its coordinator
    nr_eval,       \* nr_eval
    threads,       \* len(predictors): Worker k is made for predictors[k - 1]
    wPc,           \* where each Worker is in run
    wStop,         \* each Worker's stop event is set
    wSteps,        \* steps each Worker has made in its episode
    wEpisodes,     \* episodes each Worker has finished
    q,             \* q, scores put and not yet taken
    q_dist,        \* q_dist, distance errors put and not yet taken
    stat,          \* stat, what was fed to it, in order
    dist_stat,     \* dist_stat, what was fed to it, in order
    coPc,          \* where the caller of eval_with_funcs is
    coK,           \* index of the loop the caller is in
    ret,           \* what eval_with_funcs returned
    putQ,          \* history: all that was put on q
    putDist,       \* history: all that was put on q_dist
    \* the callbacks' _trigger: ExpReplay._trigger and Evaluator._trigger
    trPc,          \* where the trigger that runs is; "idle" between triggers
    failing,       \* the scalars whose put_scalar raises in this trigger
    player_scores, \* self._player_scores, the scores fed since its reset
    player_distError,  \* self._player_distError, likewise
    num_games,     \* self.player.num_games, games counted since reset_stat
    num_success,   \* self.player.num_success, successes counted since reset_stat
    eval_episode,  \* Evaluator.eval_episode
    emitted,       \* the scalars this trigger has put, with their values
    logged,        \* this trigger has called logger.exception
    triggers,      \* history: number of triggers that returned
    games,         \* history: number of episodes that ended
    reports        \* history: the scores each expreplay/mean_score put covered

replay == << init_memory_size, update_frequency, batch_size, flag, jobs, mainPc,
             simPc, simLeft, gdPc, gdTodo, gdIdx, gdSeen, gdTorn, batches,
             tokensPut, simAppends >>

evaluation == << nr_eval, threads, wPc, wStop, wSteps, wEpisodes, q, q_dist,
                 stat, dist_stat, coPc, coK, ret, putQ, putDist >>

callbacks == << trPc, failing, player_scores, player_distError, num_games,
                num_success, eval_episode, emitted, logged, triggers, games,
                reports >>

\* what ReplayMemory and the threads of get_data and of SimulatorThread leave
\* alone
others == << evaluation, callbacks >>

vars == << max_size, history_len, state, action, reward, isOver, curr_size,
           curr_pos, hist, appended, n, sinceOver, last, replay, others >>

mem == << state, action, reward, isOver, curr_size, curr_pos, hist >>
params == << max_size, history_len >>
history == << appended, n, sinceOver >>

Min(a, b) == IF a < b THEN a ELSE b
Max(a, b) == IF a > b THEN a ELSE b

Slots == 0 .. (max_size - 1)

\* namedtuple Experience(state, action, reward, isOver)
Experience(s, a, r, o) == [state |-> s, action |-> a, reward |-> r, isOver |-> o]

----------------------------------------------------------------------------
(* ReplayMemory.__init__ *)

\* no call of eval_with_funcs
EvalIdle ==
    /\ nr_eval = 0
    /\ threads = 0
    /\ wPc = << >>
    /\ wStop = << >>
    /\ wSteps = << >>
    /\ wEpisodes = << >>
    /\ q = << >>
    /\ q_dist = << >>
    /\ stat = << >>
    /\ dist_stat = << >>
    /\ coPc = "none"
    /\ coK = 0
    /\ ret = "none"
    /\ putQ = {}
    /\ putDist = {}

\* no trainer that triggers the callbacks
TriggersIdle ==
    /\ trPc = "none"
    /\ failing = {}
    /\ player_scores = << >>
    /\ player_distError = << >>
    /\ num_games = 0
    /\ num_success = 0
    /\ eval_episode = 0
    /\ emitted = << >>
    /\ logged = FALSE
    /\ triggers = 0
    /\ games = 0
    /\ reports = << >>

\* nothing runs besides the memory and ExpReplay's threads
OthersIdle == EvalIdle /\ TriggersIdle

\* no ExpReplay around the memory: its threads never run
ReplayIdle ==
    /\ init_memory_size = 0
    /\ update_frequency = 0
    /\ batch_size = 0
    /\ flag = FALSE
    /\ jobs = 0
    /\ mainPc = "none"
    /\ simPc = "off"
    /\ simLeft = 0
    /\ gdPc = "none"
    /\ gdTodo = << >>
    /\ gdIdx = << >>
    /\ gdSeen = << >>
    /\ gdTorn = FALSE
    /\ batches = 0
    /\ tokensPut = 0
    /\ simAppends = 0

\* ReplayMemory(max_size, state_shape, history_len)
MemoryInit(size, hlen) ==
    /\ max_size = size
    /\ history_len = hlen
    /\ state = [p \in Slots |-> ZeroFrame]
    /\ action = [p \in Slots |-> 0]
    /\ reward = [p \in Slots |-> 0]
    /\ isOver = [p \in Slots |-> FALSE]
    /\ curr_size = 0
    /\ curr_pos = 0
    /\ hist = << >>
    /\ appended = << >>
    /\ n = 0
    /\ sinceOver = 0
    /\ last = [op |-> "init"]

Init ==
    /\ \E c \in Configs : MemoryInit(c[1], c[2])
    /\ ReplayIdle
    /\ OthersIdle

----------------------------------------------------------------------------
(* ReplayMemory._assign and ReplayMemory.append *)

\* Assign with the reward written one slot further
AssignSkewed(pos, exp) ==
    /\ state' = [state EXCEPT ![pos] = exp.state]
    /\ reward' = [reward EXCEPT ![(pos + 1) % max_size] = exp.reward]
    /\ action' = [action EXCEPT ![pos] = exp.action]
    /\ isOver' = [isOver EXCEPT ![pos] = exp.isOver]

\* _assign: the four arrays written at pos.
Assign(pos, exp) ==
    /\ state' = [state EXCEPT ![pos] = exp.state]
    /\ reward' = [reward EXCEPT ![pos] = exp.reward]
    /\ action' = [action EXCEPT ![pos] = exp.action]
    /\ isOver' = [isOver EXCEPT ![pos] = exp.isOver]

\* NextPos with the modulus one short
NextPosShort(pos) == (pos + 1) % (max_size - 1)

\* NextPos without the wrap
NextPosNoWrap(pos) == pos + 1

\* (self._curr_pos + 1) % self.max_size
NextPos(pos) == (pos + 1) % max_size

\* HasRoom that never sees the memory full
HasRoomAlways(size) == size <= max_size

\* if self._curr_size < self.max_size
HasRoom(size) == size < max_size

\* IncSize that wraps like the cursor
IncSizeWrap(size) == (size + 1) % max_size

\* self._curr_size += 1
IncSize(size) == size + 1

\* deque(maxlen=history_len - 1).append: the oldest entry leaves a full deque;
\* a deque of maxlen 0 keeps nothing.
DequeAppend(d, x) ==
    LET maxlen == history_len - 1 IN
    IF maxlen = 0 THEN << >>
    ELSE IF Len(d) = maxlen THEN Append(Tail(d), x)
    ELSE Append(d, x)

\* HistAfter without the clear on a terminal transition
HistAfterNoClear(d, exp) == DequeAppend(d, exp)

\* self._hist after append(exp)
HistAfter(d, exp) == IF exp.isOver THEN << >> ELSE DequeAppend(d, exp)

\* history kept beside the memory: the last max_size transitions appended
Remember(log, exp) ==
    IF Len(log) = max_size THEN Append(Tail(log), exp) ELSE Append(log, exp)

append(exp) ==
    /\ IF HasRoom(curr_size)
         THEN /\ Assign(curr_pos, exp)
              /\ curr_pos' = NextPos(curr_pos)
              /\ curr_size' = IncSize(curr_size)
         ELSE /\ Assign(curr_pos, exp)
              /\ curr_pos' = NextPos(curr_pos)
              /\ curr_size' = curr_size
    /\ hist' = HistAfter(hist, exp)
    /\ appended' = Remember(appended, exp)
    /\ n' = n + 1
    /\ sinceOver' = IF exp.isOver THEN 0 ELSE sinceOver + 1
    /\ last' = [op |-> "append", exp |-> exp, pos |-> curr_pos,
                wasFull |-> (curr_size = max_size),
                evicted |-> Experience(state[curr_pos], action[curr_pos],
                                       reward[curr_pos], isOver[curr_pos]),
                oldest |-> IF appended = << >> THEN exp ELSE Head(appended)]
    /\ UNCHANGED params

\* _populate_exp: the transition appended carries the frame observed, the action
\* taken, and the reward and isOver of player.step.
AppendAny ==
    /\ n < MaxAppends
    /\ \E st \in Steps :
          append(Experience(n + 1, st[1][1], st[1][2], st[2]))
    /\ UNCHANGED << replay, others >>

----------------------------------------------------------------------------
(* ReplayMemory.recent_state and ReplayMemory.__len__ *)

\* RecentState with the zero frames after the real ones
RecentStatePadBack(d) ==
    [j \in 1 .. Len(d) |-> d[j].state]
        \o [j \in 1 .. ((history_len - 1) - Len(d)) |-> ZeroFrame]

\* [np.zeros(...)] * (maxlen - len(lst)), then the states of the deque
RecentState(d) ==
    [j \in 1 .. ((history_len - 1) - Len(d)) |-> ZeroFrame]
        \o [j \in 1 .. Len(d) |-> d[j].state]

recent_state ==
    /\ last' = [op |-> "recent_state", ret |-> RecentState(hist)]
    /\ UNCHANGED << mem, params, history, replay, others >>

len ==
    /\ last' = [op |-> "len", ret |-> curr_size]
    /\ UNCHANGED << mem, params, history, replay, others >>

----------------------------------------------------------------------------
(* ReplayMemory.sample, _slice and _pad_sample *)

\* arr[a:b] for 0 <= a, 0 <= b: b is clipped to the length of the array
PySlice(arr, a, b) ==
    LET hi == Min(b, max_size) IN
    IF hi <= a THEN << >> ELSE [j \in 1 .. (hi - a) |-> arr[a + (j - 1)]]

\* Slice with the two parts concatenated in the wrong order
SliceSwapped(arr, start, end) ==
    PySlice(arr, 0, end) \o PySlice(arr, start, max_size)

\* _slice: np.concatenate((arr[start:], arr[:end]))
Slice(arr, start, end) == PySlice(arr, start, max_size) \o PySlice(arr, 0, end)

\* PhysIdx one slot too far
PhysIdxNext(i) == (curr_pos + i + 1) % curr_size

\* idx = (self._curr_pos + idx) % self._curr_size
PhysIdx(i) == (curr_pos + i) % curr_size

\* the four slices sample takes at physical index idx, size being the
\* _curr_size it read
WindowAt(idx, size) ==
    LET k == history_len + 1
    IN  IF idx + k <= size
          THEN [state  |-> PySlice(state, idx, idx + k),
                reward |-> PySlice(reward, idx, idx + k),
                action |-> PySlice(action, idx, idx + k),
                isOver |-> PySlice(isOver, idx, idx + k)]
          ELSE LET end == idx + k - size IN
               [state  |-> Slice(state, idx, end),
                reward |-> Slice(reward, idx, end),
                action |-> Slice(action, idx, end),
                isOver |-> Slice(isOver, idx, end)]

\* the four slices sample hands to _pad_sample
Window(i) == WindowAt(PhysIdx(i), curr_size)

\* first k of the scan "for k in range(start, -1, -1)" with isOver[k], or -1
RECURSIVE Scan(_, _)
Scan(ov, k) ==
    IF k < 0 THEN -1
    ELSE IF ov[k + 1] THEN k
    ELSE Scan(ov, k - 1)

\* ScanStart one frame early: range(history_len - 3, -1, -1)
ScanStartEarly == history_len - 3

\* ScanStart one frame late: range(history_len - 1, -1, -1)
ScanStartLate == history_len - 1

\* the k at which _pad_sample starts its scan: range(history_len - 2, -1, -1)
ScanStart == history_len - 2

\* state[:m].fill(0) on a copy
FillZero(st, m) == [p \in 1 .. Len(st) |-> IF p <= m THEN ZeroFrame ELSE st[p]]

\* FillCount one short: state[:k]
FillCountShort(k) == k

\* the frames zeroed when the scan stops at k: state[: k + 1]
FillCount(k) == k + 1

\* seq[-1] in place of seq[-2]
LastOf(s) == s[Len(s)]

\* seq[-2]
SecondLast(s) == s[Len(s) - 1]

\* _pad_sample; the transpose moves the frame axis last and keeps the frames'
\* order, so the stacked state stays indexed by frame.
PadSample(st, rw, ac, ov) ==
    LET k == Scan(ov, ScanStart)
        padded == IF k >= 0 THEN FillZero(st, FillCount(k)) ELSE st
    IN  [state |-> padded, reward |-> SecondLast(rw),
         action |-> SecondLast(ac), isOver |-> SecondLast(ov)]

Sample(i) ==
    LET w == Window(i) IN PadSample(w.state, w.reward, w.action, w.isOver)

\* FillsCopy without the deepcopy: the fill goes to what state refers to
FillsView == FALSE

\* _pad_sample: state = copy.deepcopy(state) comes before state[: k + 1].fill(0)
FillsCopy == TRUE

\* self.state after sample(idx) with the memory not empty: a basic slice is a
\* view of self.state and the result of np.concatenate is not, so a fill
\* without the copy would reach the slots of an unwrapped window
StateAfterSample(i) ==
    LET idx == PhysIdx(i)
        w == Window(i)
        k == Scan(w.isOver, ScanStart)
        isView == idx + history_len + 1 <= curr_size
    IN  IF FillsCopy \/ k < 0 \/ ~isView
          THEN state
          ELSE [s \in Slots |->
                  IF s >= idx /\ s < idx + FillCount(k) THEN ZeroFrame ELSE state[s]]

\* sample of an empty memory with a numpy integer as idx: the modulo by 0
\* warns and gives 0, and the slices are taken at physical index 0
SampleEmpty ==
    LET w == WindowAt(0, 0)
    IN  [window |-> w, ret |-> PadSample(w.state, w.reward, w.action, w.isOver)]

\* sample(idx): with an empty memory the modulo raises ZeroDivisionError when
\* idx is a Python int, and gives 0 when idx is a numpy integer (get_data
\* passes the elements of rng.randint's array)
sample(i) ==
    /\ \E numpyIdx \in BOOLEAN :
          last' = IF curr_size = 0
                    THEN IF numpyIdx
                           THEN [op |-> "sample", idx |-> i, raised |-> FALSE,
                                 window |-> SampleEmpty.window,
                                 ret |-> SampleEmpty.ret]
                           ELSE [op |-> "sample", idx |-> i, raised |-> TRUE]
                    ELSE [op |-> "sample", idx |-> i, raised |-> FALSE,
                          window |-> Window(i), ret |-> Sample(i)]
    /\ state' = IF curr_size = 0 THEN state ELSE StateAfterSample(i)
    /\ UNCHANGED << action, reward, isOver, curr_size, curr_pos, hist >>
    /\ UNCHANGED << params, history, replay, others >>

SampleAny == \E i \in Slots : sample(i)

----------------------------------------------------------------------------

Next == AppendAny \/ SampleAny \/ recent_state \/ len

Spec == Init /\ [][Next]_vars

----------------------------------------------------------------------------
(* Properties of the ring: append and __len__ *)

\* the transition stored in slot p
At(p) == Experience(state[p], action[p], reward[p], isOver[p])

\* physical slot of logical index j
Logical(j) == (curr_pos + j) % curr_size

\* number of transitions that survive after n appends
Surviving == Min(n, max_size)

\* C1: after n appends the storage holds exactly the last min(n, max_size)
\* appended transitions, all four fields; logical index j, physical slot
\* (curr_pos + j) mod curr_size, holds the (min(n, max_size) - j)-th most recent
\* append, so logical index 0 is the oldest survivor; and an append made to a
\* full memory overwrote the slot of the oldest survivor.
C1_RingOverwrite ==
    /\ Len(appended) = Surviving
    /\ \A j \in 0 .. (Surviving - 1) :
          /\ At(Logical(j)) = appended[j + 1]
          /\ state[Logical(j)] = n - Surviving + j + 1
    /\ \A p \in Slots :
          (\A j \in 0 .. (Surviving - 1) : Logical(j) # p)
              => At(p) = Experience(ZeroFrame, 0, 0, FALSE)
    /\ (last.op = "append" /\ last.wasFull)
          => /\ last.evicted = last.oldest
             /\ At(last.pos) = last.exp
             /\ curr_size = max_size

\* C1 witness: an append to a full memory whose write cursor was not at slot 0
C1_Witness ==
    /\ last.op = "append"
    /\ last.wasFull
    /\ last.pos > 0
    /\ n > max_size + 1

\* C2: after n appends len(mem) is min(n, max_size): n while n <= max_size,
\* max_size afterwards.
C2_LenIsMin ==
    /\ curr_size = Min(n, max_size)
    /\ last.op = "len" => last.ret = Min(n, max_size)

\* C2 witness: len called after more appends than the memory holds
C2_Witness ==
    /\ last.op = "len"
    /\ n > max_size
    /\ last.ret = max_size

\* C3: in every state reached by append, sample, recent_state and len calls,
\* 0 <= _curr_size <= max_size and 0 <= _curr_pos < max_size.
C3_Ranges ==
    /\ 0 <= curr_size
    /\ curr_size <= max_size
    /\ 0 <= curr_pos
    /\ curr_pos < max_size

\* C3 witness: the cursor back at slot 0 after the ring was overwritten once
\* over, seen after a read
C3_Witness ==
    /\ n = 2 * max_size
    /\ curr_pos = 0
    /\ curr_size = max_size
    /\ last.op \in {"sample", "recent_state", "len"}

----------------------------------------------------------------------------
(* Properties of sample *)

\* sample(i) is valid: the window i .. i + history_len lies within the size
Valid(i) == i + history_len + 1 <= curr_size

\* the last call was a valid sample that returned
Sampled ==
    /\ last.op = "sample"
    /\ ~last.raised
    /\ Valid(last.idx)

\* the transition at logical index j: the (curr_size - j)-th most recent append
Chrono(j) == appended[j + 1]

\* the transition at window position p of the last sample
InWindow(p) == Chrono(last.idx + p)

\* window positions 0 .. history_len - 2 whose transition is terminal
PrefixTerminals == { p \in 0 .. (history_len - 2) : InWindow(p).isOver }

\* the largest element of a non-empty set of numbers
Largest(S) == CHOOSE x \in S : \A y \in S : y <= x

\* the window of the last sample crossed the physical end of the arrays
Wrapped == ((curr_pos + last.idx) % curr_size) + history_len + 1 > max_size

\* C4: a valid sample(i), the memory filling or full, reads exactly
\* history_len + 1 transitions, those at logical indices i .. i + history_len in
\* chronological order, also when the window crosses the physical end of the
\* arrays; with no terminal flag in positions 0 .. history_len - 2, frame j of
\* the returned stacked state is the state of logical index i + j.
C4_WindowRead ==
    Sampled =>
        /\ Len(last.window.state) = history_len + 1
        /\ Len(last.window.reward) = history_len + 1
        /\ Len(last.window.action) = history_len + 1
        /\ Len(last.window.isOver) = history_len + 1
        /\ Len(last.ret.state) = history_len + 1
        /\ \A p \in 0 .. history_len :
              /\ last.window.state[p + 1] = InWindow(p).state
              /\ last.window.reward[p + 1] = InWindow(p).reward
              /\ last.window.action[p + 1] = InWindow(p).action
              /\ last.window.isOver[p + 1] = InWindow(p).isOver
              /\ last.window.state[p + 1] = n - curr_size + last.idx + p + 1
        /\ PrefixTerminals = {}
              => \A p \in 0 .. history_len :
                    last.ret.state[p + 1] = InWindow(p).state

\* C4 witness: a valid sample of a full memory whose window is assembled from
\* two slices, with no terminal flag in it
C4_Witness ==
    /\ Sampled
    /\ curr_size = max_size
    /\ Wrapped
    /\ last.idx > 0
    /\ \A p \in 0 .. history_len : ~InWindow(p).isOver

\* C4 second case, the memory still filling (reached as well; see C4_Witness)
C4_Filling == Sampled /\ curr_size < max_size /\ last.idx > 0

\* C5: a valid sample(i) returns the reward, action and terminal flag of the
\* second-to-last transition of its window, logical index i + history_len - 1,
\* whether or not frames were zeroed.
C5_FieldsOfSecondLast ==
    Sampled =>
        /\ last.ret.reward = InWindow(history_len - 1).reward
        /\ last.ret.action = InWindow(history_len - 1).action
        /\ last.ret.isOver = InWindow(history_len - 1).isOver

\* C5 witness: frames were zeroed, and the last transition of the window
\* differs from the second-to-last in reward, action and terminal flag
C5_Witness ==
    /\ Sampled
    /\ PrefixTerminals # {}
    /\ InWindow(history_len).reward # InWindow(history_len - 1).reward
    /\ InWindow(history_len).action # InWindow(history_len - 1).action
    /\ InWindow(history_len).isOver # InWindow(history_len - 1).isOver

\* C6: zero-padding rule.  With no terminal flag at window positions
\* 0 .. history_len - 2 no frame of the stacked state is zeroed; otherwise, k
\* being the largest such position with the flag set, exactly the frames
\* 0 .. k are zero-filled and the frames k + 1 .. history_len are intact.
C6_ZeroPadRule ==
    Sampled =>
        /\ Len(last.ret.state) = history_len + 1
        /\ IF PrefixTerminals = {}
             THEN \A p \in 0 .. history_len :
                     /\ last.ret.state[p + 1] = InWindow(p).state
                     /\ last.ret.state[p + 1] # ZeroFrame
             ELSE LET k == Largest(PrefixTerminals) IN
                  \A p \in 0 .. history_len :
                     IF p <= k
                       THEN last.ret.state[p + 1] = ZeroFrame
                       ELSE /\ last.ret.state[p + 1] = InWindow(p).state
                            /\ last.ret.state[p + 1] # ZeroFrame

\* C6 witness: two terminal flags in the prefix, the scan stops at the later
C6_Witness ==
    /\ Sampled
    /\ history_len = 3
    /\ PrefixTerminals = {0, 1}
    /\ last.ret.state[3] # ZeroFrame

\* C6 second case: a flag at position 0 only, frame 1 intact
C6_FlagAtZero ==
    /\ Sampled
    /\ history_len = 3
    /\ PrefixTerminals = {0}
    /\ last.ret.state[2] # ZeroFrame

\* positions p <= u of the window lie in one episode: no transition of
\* p .. u - 1 is terminal
SameEpisode(p, u) == \A r \in p .. (u - 1) : ~InWindow(r).isOver

\* C7: no cross-episode leakage.  Every frame at positions
\* 0 .. history_len - 1 of the stacked state of a valid sample is zero-filled
\* or is the frame of a transition of the episode of the current step,
\* position history_len - 1.
C7_NoLeakage ==
    Sampled =>
        \A p \in 0 .. (history_len - 1) :
            \/ last.ret.state[p + 1] = ZeroFrame
            \/ /\ last.ret.state[p + 1] = InWindow(p).state
               /\ SameEpisode(p, history_len - 1)

\* C7 witness: the step before the current one ended an episode, so the whole
\* history before the current frame is zeroed and the current frame is kept
C7_Witness ==
    /\ Sampled
    /\ history_len >= 2
    /\ InWindow(history_len - 2).isOver
    /\ \A p \in 0 .. (history_len - 2) : last.ret.state[p + 1] = ZeroFrame
    /\ last.ret.state[history_len] = InWindow(history_len - 1).state

\* C8 as stated: a terminal flag at any of the window positions
\* 0 .. history_len - 1 zeroes all frames at or before that position.
C8_ScanFromSecondLast ==
    Sampled =>
        \A p \in 0 .. (history_len - 1) :
            InWindow(p).isOver
                => \A u \in 0 .. p : last.ret.state[u + 1] = ZeroFrame

\* C8 amended: the backward scan starts at the third-to-last frame of the
\* window, position history_len - 2, and runs to the first.  A terminal flag
\* at any of the positions 0 .. history_len - 2 zeroes all frames at or before
\* that position; a flag at the second-to-last position history_len - 1 is not
\* scanned: when it is the only flag among 0 .. history_len - 1, no frame is
\* zeroed.
C8_ScanFromThirdLast ==
    Sampled =>
        /\ \A p \in 0 .. (history_len - 2) :
              InWindow(p).isOver
                  => \A u \in 0 .. p : last.ret.state[u + 1] = ZeroFrame
        /\ (InWindow(history_len - 1).isOver /\ PrefixTerminals = {})
              => \A u \in 0 .. history_len :
                    last.ret.state[u + 1] = InWindow(u).state

\* C8 witness: the only terminal flag is at the second-to-last position and
\* the returned frames are all intact
C8_Witness ==
    /\ Sampled
    /\ history_len >= 2
    /\ InWindow(history_len - 1).isOver
    /\ PrefixTerminals = {}
    /\ \A u \in 0 .. history_len : last.ret.state[u + 1] # ZeroFrame

\* the last call sampled the window that ends at the newest transition t,
\* logical index curr_size - history_len - 1, t having been appended when at
\* least history_len transitions were stored
SampledNewest ==
    /\ Sampled
    /\ n >= history_len + 1
    /\ last.idx = curr_size - history_len - 1

\* the newest appended transition, and the one appended before it
Newest == appended[Len(appended)]
BeforeNewest == appended[Len(appended) - 1]

\* C9 as stated: sampling the window that ends at the transition t just
\* appended returns the action, reward and terminal flag appended with t.
C9_RoundTripNewest ==
    SampledNewest =>
        /\ last.ret.action = Newest.action
        /\ last.ret.reward = Newest.reward
        /\ last.ret.isOver = Newest.isOver

\* C9 amended: sampling the window that ends at the transition t just appended
\* returns the action, reward and terminal flag of the transition appended
\* immediately before t, the second-to-last of that window.
C9_RoundTripBeforeNewest ==
    SampledNewest =>
        /\ last.ret.action = BeforeNewest.action
        /\ last.ret.reward = BeforeNewest.reward
        /\ last.ret.isOver = BeforeNewest.isOver

\* C9 witness: such a sample where t differs from its predecessor in all three
\* fields, the memory still filling
C9_Witness ==
    /\ SampledNewest
    /\ curr_size < max_size
    /\ Newest.action # BeforeNewest.action
    /\ Newest.reward # BeforeNewest.reward
    /\ Newest.isOver # BeforeNewest.isOver

----------------------------------------------------------------------------
(* Properties of recent_state *)

\* C10: recent_state() returns exactly history_len - 1 frames.  With N the
\* number of (non-terminal) appends since the last terminal append or since
\* creation, they are max(0, history_len - 1 - N) zero frames followed by the
\* states of the last min(N, history_len - 1) appended transitions in
\* chronological order; all are zero right after a terminal append.
C10_RecentState ==
    last.op = "recent_state" =>
        LET zeros == Max(0, history_len - 1 - sinceOver)
            real == Min(sinceOver, history_len - 1)
        IN  /\ Len(last.ret) = history_len - 1
            /\ zeros + real = history_len - 1
            /\ \A j \in 1 .. zeros : last.ret[j] = ZeroFrame
            /\ \A j \in 1 .. real :
                  /\ last.ret[zeros + j] = appended[Len(appended) - real + j].state
                  /\ last.ret[zeros + j] = n - real + j
            /\ (n > 0 /\ Newest.isOver)
                  => \A j \in 1 .. (history_len - 1) : last.ret[j] = ZeroFrame

\* C10 witness: one non-terminal append since a terminal one, a deque of two
C10_Witness ==
    /\ last.op = "recent_state"
    /\ history_len = 3
    /\ sinceOver = 1
    /\ n > 1
    /\ last.ret[1] = ZeroFrame
    /\ last.ret[2] = n

\* C10 second case: more appends since the terminal one than the deque holds
C10_Overfull ==
    /\ last.op = "recent_state"
    /\ history_len = 3
    /\ sinceOver = 4
    /\ n > 4

----------------------------------------------------------------------------
(* Properties of _hist, of the size and of the frame of append *)

\* C11: in every reachable state _hist holds no terminal transition, has at
\* most history_len - 1 entries, and holds only transitions appended after the
\* most recent terminal append (the last min(N, history_len - 1) appends, N
\* the number of appends since then); it is empty right after a terminal
\* append.
C11_HistInvariant ==
    /\ \A j \in 1 .. Len(hist) : ~hist[j].isOver
    /\ Len(hist) <= history_len - 1
    /\ Len(hist) = Min(sinceOver, history_len - 1)
    /\ \A j \in 1 .. Len(hist) :
          hist[j] = appended[Len(appended) - Len(hist) + j]
    /\ (last.op = "append" /\ last.exp.isOver) => hist = << >>

\* C11 witness: a terminal append emptied a deque that held a transition
C11_Witness ==
    /\ last.op = "append"
    /\ last.exp.isOver
    /\ hist = << >>
    /\ history_len = 3
    /\ Len(appended) >= 3
    /\ ~appended[Len(appended) - 1].isOver

\* C12: the size never decreases, and once it equals max_size it equals
\* max_size after every later step.
C12_SizeOneWay ==
    [][ /\ curr_size' >= curr_size
        /\ (curr_size = max_size => curr_size' = max_size) ]_vars

\* C12 witness: appends made after the memory became full
C12_Witness ==
    /\ curr_size = max_size
    /\ n >= max_size + 2
    /\ last.op = "append"

\* C13: an append writes the state, action, reward and terminal flag of the
\* appended transition into the four arrays at one index, the write cursor
\* before the append, and leaves every other slot of the four arrays unchanged.
C13_AppendFrame ==
    [][ n' = n + 1 =>
          /\ state'[curr_pos] = last'.exp.state
          /\ action'[curr_pos] = last'.exp.action
          /\ reward'[curr_pos] = last'.exp.reward
          /\ isOver'[curr_pos] = last'.exp.isOver
          /\ \A p \in Slots :
                p # curr_pos =>
                    /\ state'[p] = state[p]
                    /\ action'[p] = action[p]
                    /\ reward'[p] = reward[p]
                    /\ isOver'[p] = isOver[p] ]_vars

\* C13 witness: an append that overwrote the last slot of a full memory with
\* a transition that differs from the evicted one in every field
C13_Witness ==
    /\ last.op = "append"
    /\ last.wasFull
    /\ last.pos = max_size - 1
    /\ last.evicted.action # last.exp.action
    /\ last.evicted.reward # last.exp.reward
    /\ last.evicted.isOver # last.exp.isOver

----------------------------------------------------------------------------
(***************************************************************************)
(* ExpReplay: the thread of _before_train fills the memory and starts      *)
(* SimulatorThread; SimulatorThread takes a token from                     *)
(* _populate_job_queue and appends update_frequency transitions; the       *)
(* thread that iterates get_data waits for _init_memory_flag, then draws   *)
(* indices, samples them, yields the batch and puts a token.               *)
(* sample is not atomic: it computes its physical index from _curr_pos and *)
(* _curr_size, and reads the arrays afterwards.                            *)
(***************************************************************************)

\* Bound of the model: the number of batches get_data draws in one run.
MaxBatches == 7

\* queue.Queue(maxsize=5)
QueueMax == 5

\* ExpReplay(..., batch_size, memory_size, init_memory_size, ...,
\* update_frequency, history_len)
ReplayConfigs ==
    { [memory_size |-> 8, init_memory_size |-> 8, update_frequency |-> 1,
       history_len |-> 1, batch_size |-> 1],
      [memory_size |-> 9, init_memory_size |-> 8, update_frequency |-> 1,
       history_len |-> 1, batch_size |-> 2],
      [memory_size |-> 9, init_memory_size |-> 9, update_frequency |-> 1,
       history_len |-> 2, batch_size |-> 1],
      [memory_size |-> 14, init_memory_size |-> 13, update_frequency |-> 2,
       history_len |-> 1, batch_size |-> 1] }

\* ExpReplay.__init__; the thread of get_data may wait before _before_train
InitReplay ==
    \E c \in ReplayConfigs :
        /\ OthersIdle
        /\ MemoryInit(c.memory_size, c.history_len)
        /\ init_memory_size = c.init_memory_size
        /\ update_frequency = c.update_frequency
        /\ batch_size = c.batch_size
        /\ flag = FALSE
        /\ jobs = 0
        /\ mainPc = "start"
        /\ simPc = "off"
        /\ simLeft = 0
        /\ gdPc = "wait"
        /\ gdTodo = << >>
        /\ gdIdx = << >>
        /\ gdSeen = << >>
        /\ gdTorn = FALSE
        /\ batches = 0
        /\ tokensPut = 0
        /\ simAppends = 0

\* the k-th transition of the run: the player ends an episode every third
\* step; the frame observed is k
PlayerStep(k) == Experience(k, k % 2, 2 * (k % 2) - 1, k % 3 = 0)

\* _populate_exp: player.step, then self.mem.append(Experience(...))
PopulateExp == append(PlayerStep(n + 1))

\* what the threads of ExpReplay leave alone besides the memory
params2 == << init_memory_size, update_frequency, batch_size >>
mainVars == << flag, mainPc >>
simVars == << simPc, simLeft, simAppends >>
gdVars == << gdPc, gdTodo, gdIdx, gdSeen, gdTorn, batches, tokensPut >>
memory == << mem, params, history, last >>

(* _before_train and _init_memory *)

\* while len(self.mem) < self.init_memory_size
Filling(size) == size < init_memory_size

\* MayStartSim with the thread started before _init_memory has returned
MayStartSimEarly(pc) == pc \in {"init_memory", "inited"}

\* self._simulator_th.start() comes after self._init_memory()
MayStartSim(pc) == pc = "inited"

BeforeTrain ==
    /\ mainPc = "start"
    /\ mainPc' = "init_memory"
    /\ UNCHANGED << flag, jobs, params2, others, simVars, gdVars, memory >>

\* one test of the while loop; self._init_memory_flag.set() when it ends
InitMemoryLoop ==
    /\ mainPc = "init_memory"
    /\ IF Filling(curr_size)
         THEN mainPc' = "populate" /\ flag' = flag
         ELSE mainPc' = "inited" /\ flag' = TRUE
    /\ UNCHANGED << jobs, params2, others, simVars, gdVars, memory >>

InitMemoryPopulate ==
    /\ mainPc = "populate"
    /\ PopulateExp
    /\ mainPc' = "init_memory"
    /\ UNCHANGED << flag, jobs, params2, others, simVars, gdVars >>

StartSimulator ==
    /\ MayStartSim(mainPc)
    /\ simPc = "off"
    /\ simPc' = "get"
    /\ mainPc' = IF mainPc = "inited" THEN "training" ELSE mainPc
    /\ UNCHANGED << flag, jobs, params2, others, simLeft, simAppends, gdVars, memory >>

(* get_simulator_thread: LoopThread(populate_job_func) *)

\* JobSize with one append too many
JobSizeLong == update_frequency + 1

\* for _ in range(self.update_frequency)
JobSize == update_frequency

\* self._populate_job_queue.get() blocks while the queue is empty
SimGet ==
    /\ simPc = "get"
    /\ jobs > 0
    /\ jobs' = jobs - 1
    /\ simLeft' = JobSize
    /\ simPc' = IF JobSize > 0 THEN "populate" ELSE "get"
    /\ UNCHANGED << mainVars, params2, others, simAppends, gdVars, memory >>

SimPopulate ==
    /\ simPc = "populate"
    /\ PopulateExp
    /\ simLeft' = simLeft - 1
    /\ simAppends' = simAppends + 1
    /\ simPc' = IF simLeft - 1 > 0 THEN "populate" ELSE "get"
    /\ UNCHANGED << mainVars, jobs, params2, others, gdVars >>

(* get_data *)

\* FlagOpen that does not wait
FlagOpenAlways == TRUE

\* self._init_memory_flag.wait()
FlagOpen == flag

\* rng.randint(low, high, size): low of the draw
DrawLow == QueueMax * update_frequency

\* rng.randint(low, high, size): high of the draw, exclusive
DrawHigh == curr_size - history_len - 1

GetDataWait ==
    /\ gdPc = "wait"
    /\ FlagOpen
    /\ gdPc' = "draw"
    /\ UNCHANGED << mainVars, jobs, params2, others, simVars, gdTodo, gdIdx, gdSeen,
                    gdTorn, batches, tokensPut, memory >>

\* randint raises ValueError when low >= high
GetDataDraw ==
    /\ gdPc = "draw"
    /\ batches < MaxBatches
    /\ IF DrawLow >= DrawHigh
         THEN gdPc' = "error" /\ gdTodo' = gdTodo
         ELSE /\ gdPc' = "index"
              /\ \E idx \in [1 .. batch_size -> DrawLow .. (DrawHigh - 1)] :
                    gdTodo' = idx
    /\ gdTorn' = FALSE
    /\ UNCHANGED << mainVars, jobs, params2, others, simVars, gdIdx, gdSeen, batches,
                    tokensPut, memory >>

\* sample, first part: idx = (self._curr_pos + idx) % self._curr_size
GetDataIndex ==
    /\ gdPc = "index"
    /\ IF curr_size = 0
         THEN gdPc' = "error" /\ UNCHANGED << gdIdx, gdSeen >>
         ELSE /\ gdPc' = "read"
              /\ gdIdx' = << PhysIdx(Head(gdTodo)), curr_size >>
              /\ gdSeen' = WindowAt(PhysIdx(Head(gdTodo)), curr_size)
    /\ UNCHANGED << mainVars, jobs, params2, others, simVars, gdTodo, gdTorn, batches,
                    tokensPut, memory >>

\* sample, second part: the slices are taken and read
GetDataRead ==
    /\ gdPc = "read"
    /\ gdTorn' = (gdTorn \/ WindowAt(gdIdx[1], gdIdx[2]) # gdSeen)
    /\ gdTodo' = Tail(gdTodo)
    /\ gdPc' = IF Tail(gdTodo) = << >> THEN "yield" ELSE "index"
    /\ gdIdx' = << >>
    /\ gdSeen' = << >>
    /\ UNCHANGED << mainVars, jobs, params2, others, simVars, batches, tokensPut,
                    memory >>

\* yield self._process_batch(batch_exp)
GetDataYield ==
    /\ gdPc = "yield"
    /\ batches' = batches + 1
    /\ gdPc' = "put"
    /\ UNCHANGED << mainVars, jobs, params2, others, simVars, gdTodo, gdIdx, gdSeen,
                    gdTorn, tokensPut, memory >>

\* PutBlocks of a queue without maxsize
PutBlocksNever(j) == FALSE

\* Queue.put blocks while the queue holds maxsize items
PutBlocks(j) == j >= QueueMax

\* self._populate_job_queue.put(1) blocks while the queue is full
GetDataPut ==
    /\ gdPc = "put"
    /\ ~PutBlocks(jobs)
    /\ jobs' = jobs + 1
    /\ tokensPut' = tokensPut + 1
    /\ gdPc' = "draw"
    /\ UNCHANGED << mainVars, params2, others, simVars, gdTodo, gdIdx, gdSeen, gdTorn,
                    batches, memory >>

NextReplay ==
    \/ BeforeTrain
    \/ InitMemoryLoop
    \/ InitMemoryPopulate
    \/ StartSimulator
    \/ SimGet
    \/ SimPopulate
    \/ GetDataWait
    \/ GetDataDraw
    \/ GetDataIndex
    \/ GetDataRead
    \/ GetDataYield
    \/ GetDataPut

SpecReplay == InitReplay /\ [][NextReplay]_vars

\* the three threads of NextReplay
MainThread == BeforeTrain \/ InitMemoryLoop \/ InitMemoryPopulate \/ StartSimulator
SimulatorThread == SimGet \/ SimPopulate
GetDataThread ==
    \/ GetDataWait
    \/ GetDataDraw
    \/ GetDataIndex
    \/ GetDataRead
    \/ GetDataYield
    \/ GetDataPut

\* every thread that can take a step is scheduled in the end
SpecReplayFair ==
    /\ InitReplay
    /\ [][NextReplay]_vars
    /\ WF_vars(MainThread)
    /\ WF_vars(SimulatorThread)
    /\ WF_vars(GetDataThread)

----------------------------------------------------------------------------
(* Properties of sample, recent_state and len on any index *)

\* the last call was sample on an index whose window the memory cannot hold:
\* size < i + history_len + 1
SampledInvalid == last.op = "sample" /\ ~Valid(last.idx)

\* C21 as stated: sample(i) fails with an explicit error and returns no data
\* whenever the memory holds fewer transitions than the window needs, the
\* empty memory included; it never returns never-written or stale slots.
C21_InsufficientHistoryFails == SampledInvalid => last.raised

\* the last call was a valid sample that zeroed frames of a window it had
\* taken as one slice
PaddedView ==
    /\ Sampled
    /\ PrefixTerminals # {}
    /\ ~Wrapped

\* C22: sample, recent_state and len are read-only.  A step with no append
\* leaves the four arrays, _curr_pos, _curr_size and _hist as they were, so the
\* stored frames that a sample returned zeroed stay intact, and a sample of
\* the same index right after a sample returns the same result.
C22_ReadOnly ==
    [][ n' = n =>
          /\ UNCHANGED << state, action, reward, isOver, curr_pos, curr_size, hist >>
          /\ (/\ last.op = "sample" /\ last'.op = "sample"
              /\ ~last.raised /\ ~last'.raised
              /\ last'.idx = last.idx) => last'.ret = last.ret ]_vars

\* C22 witness: a sample returned frame 0 of an unwrapped window zeroed, and
\* the slot it read the frame from still holds the frame
C22_Witness ==
    /\ PaddedView
    /\ last.ret.state[1] = ZeroFrame
    /\ state[PhysIdx(last.idx)] # ZeroFrame
    /\ state[PhysIdx(last.idx)] = InWindow(0).state

----------------------------------------------------------------------------
(* Properties of ExpReplay's threads *)

\* the thread of get_data has called sample, or has yielded a batch
SampleCalled == gdPc \in {"read", "yield", "put"} \/ batches > 0

\* C14: init gate.  get_data calls sample on no index and yields no batch
\* before _init_memory_flag is set, and the flag is set only once the fill has
\* brought len(mem) to init_memory_size or more; so len(mem) >=
\* init_memory_size at every sample call.
C14_InitGate ==
    /\ ~flag => (gdPc = "wait" /\ batches = 0 /\ gdTodo = << >>)
    /\ flag => curr_size >= init_memory_size
    /\ SampleCalled => (flag /\ curr_size >= init_memory_size)

\* C14 witness: a sample call in progress after the fill
C14_Witness ==
    /\ gdPc = "read"
    /\ flag
    /\ batches = 0
    /\ simPc = "off"
    /\ curr_size = init_memory_size

\* tokens SimulatorThread has taken from the queue
TokensTaken == tokensPut - jobs

\* C15: flow control.  get_data puts exactly one token after each batch it
\* yields, SimulatorThread appends exactly update_frequency transitions for
\* each token it takes, and so the number of transitions SimulatorThread has
\* appended is at most update_frequency times the number of tokens put.
C15_FlowControl ==
    /\ tokensPut = IF gdPc = "put" THEN batches - 1 ELSE batches
    /\ jobs >= 0
    /\ jobs <= QueueMax
    /\ simAppends = update_frequency * TokensTaken - simLeft
    /\ simLeft >= 0
    /\ simAppends <= update_frequency * tokensPut
    /\ (simPc = "off") => simAppends = 0

\* C15 witness: SimulatorThread has appended all that the tokens put allow,
\* two transitions per token
C15_Witness ==
    /\ update_frequency = 2
    /\ tokensPut >= 2
    /\ simAppends = update_frequency * tokensPut
    /\ simPc = "get"

\* C16: single writer.  No two threads are inside _populate_exp (and so
\* inside ReplayMemory.append) at once: SimulatorThread exists only after
\* _init_memory has returned, the initial fill made exactly the appends that
\* are not SimulatorThread's, and after it only SimulatorThread appends.
C16_SingleWriter ==
    /\ ~(mainPc = "populate" /\ simPc = "populate")
    /\ simPc # "off" => (mainPc = "training" /\ flag)
    /\ mainPc \in {"inited", "training"} => n - simAppends = init_memory_size
    /\ mainPc \in {"start", "init_memory", "populate"} => n - simAppends = n

\* C16 witness: SimulatorThread inside _populate_exp after it has appended
C16_Witness ==
    /\ simPc = "populate"
    /\ mainPc = "training"
    /\ simAppends >= 1
    /\ n > init_memory_size

\* C17 as stated: no slot of the window a sample call reads is overwritten
\* between the computation of its physical index and its read; a torn read of
\* a sampled window is unreachable.
C17_NoTornRead == ~gdTorn

\* get_data waits in put: the queue is full
BlockedInPut == gdPc = "put" /\ jobs = QueueMax

\* C25: bounded run-ahead.  The queue never holds more than 5 tokens and
\* get_data cannot put while it holds 5, so the batches yielded exceed the
\* tokens SimulatorThread has taken by 6 at most; and there is no deadlock:
\* whenever get_data waits in put, SimulatorThread is not waiting (a get finds
\* a token; it is started, or about to be), and get_data leaves the put in the
\* end.
C25_RunAhead ==
    /\ [](jobs <= QueueMax)
    /\ [](BlockedInPut => ~ENABLED GetDataPut)
    /\ [](batches - TokensTaken <= QueueMax + 1)
    /\ [](BlockedInPut =>
            /\ simPc = "get" => ENABLED SimGet
            /\ simPc = "populate" => ENABLED SimPopulate
            /\ simPc = "off" => ENABLED StartSimulator)
    /\ BlockedInPut ~> ~BlockedInPut

\* C25 witness: six batches yielded, none of the tokens taken, get_data
\* waiting in put and SimulatorThread at its get
C25_Witness ==
    /\ BlockedInPut
    /\ batches - TokensTaken = QueueMax + 1
    /\ simPc = "get"

\* the frames of the slices a sample call takes now, its physical index
\* computed before
FramesRead == WindowAt(gdIdx[1], gdIdx[2]).state

\* C23 as stated: every index get_data draws lies in 5 * update_frequency ..
\* len(mem) - history_len - 2, and under every interleaving with
\* SimulatorThread the window a sample call reads holds chronologically
\* consecutive transitions, all written, without the most recently written
\* one, so without the seam at the write cursor.
C23_WindowsConsecutive ==
    /\ \A j \in DOMAIN gdTodo :
          /\ gdTodo[j] >= QueueMax * update_frequency
          /\ gdTodo[j] <= curr_size - history_len - 2
    /\ gdPc = "read" =>
          /\ \A p \in 1 .. Len(FramesRead) : FramesRead[p] # ZeroFrame
          /\ \A p \in 1 .. Len(FramesRead) : FramesRead[p] # n
          /\ \A p \in 1 .. (Len(FramesRead) - 1) :
                FramesRead[p + 1] = FramesRead[p] + 1

----------------------------------------------------------------------------
(***************************************************************************)
(* eval_with_funcs of examples/LandmarkDetection/DQN/common.py: the caller *)
(* starts one Worker thread per predictor, takes nr_eval scores and        *)
(* distance errors from the two queues, stops and joins the workers and    *)
(* drains the queues.  A result is the pair (worker, episode of that       *)
(* worker), so that every result is told apart from every other.           *)
(* stopped() and what follows it are two steps: the stop event may be set  *)
(* between them.                                                           *)
(***************************************************************************)

\* Bound of the model: the number of episodes one Worker starts.
MaxEpisodes == 1

\* Bound of the model: the number of steps of an episode; the player ends
\* every episode.
MaxSteps == 2

\* the Worker threads the model has room for
Workers == 1 .. 2

\* (len(predictors), nr_eval) given to eval_with_funcs
EvalConfigs == (0 .. 2) \X (0 .. MaxEpisodes)

\* eval_with_funcs has no replay memory: one that nothing touches
MemoryIdle == MemoryInit(1, 1)

\* q = queue.Queue(); q_dist = queue.Queue(); threads = [Worker(...) ...]
InitEval ==
    /\ MemoryIdle
    /\ ReplayIdle
    /\ TriggersIdle
    /\ \E c \in EvalConfigs :
          /\ threads = c[1]
          /\ nr_eval = c[2]
    /\ wPc = [w \in Workers |-> "new"]
    /\ wStop = [w \in Workers |-> FALSE]
    /\ wSteps = [w \in Workers |-> 0]
    /\ wEpisodes = [w \in Workers |-> 0]
    /\ q = << >>
    /\ q_dist = << >>
    /\ stat = << >>
    /\ dist_stat = << >>
    /\ coPc = "start"
    /\ coK = 0
    /\ ret = "none"
    /\ putQ = {}
    /\ putDist = {}

\* what eval_with_funcs leaves alone
outside == << mem, params, history, last, replay, callbacks >>
evalParams == << nr_eval, threads >>
queues == << q, q_dist, putQ, putDist >>
stats == << stat, dist_stat >>
workerVars == << wPc, wSteps, wEpisodes >>
coVars == << coPc, coK, ret >>

(* class Worker *)

\* the exception func raises once the Worker is stopped
StoppedError == "RuntimeError"

\* except RuntimeError
Excepts(exc) == exc = "RuntimeError"

\* FuncRaises with a predictor that never looks at the stop event
FuncRaisesNever(w) == FALSE

\* func: if self.stopped(): raise RuntimeError("stopped!")
FuncRaises(w) == wStop[w]

\* the result of the episode Worker w has just finished
Result(w) == << w, wEpisodes[w] >>

\* while not self.stopped(); play_one_episode begins with env.reset()
WorkerLoop(w) ==
    /\ wPc[w] = "loop"
    /\ IF wStop[w]
         THEN wPc' = [wPc EXCEPT ![w] = "finished"] /\ wSteps' = wSteps
         ELSE /\ wEpisodes[w] < MaxEpisodes
              /\ wPc' = [wPc EXCEPT ![w] = "predict"]
              /\ wSteps' = [wSteps EXCEPT ![w] = 0]
    /\ UNCHANGED << wEpisodes, wStop, queues, stats, coVars, evalParams, outside >>

\* play_one_episode: predict(ob) calls self.func; RuntimeError ends run
WorkerPredict(w) ==
    /\ wPc[w] = "predict"
    /\ wPc' = [wPc EXCEPT ![w] =
                  IF FuncRaises(w)
                    THEN IF Excepts(StoppedError) THEN "returned" ELSE "crashed"
                    ELSE "step"]
    /\ UNCHANGED << wSteps, wEpisodes, wStop, queues, stats, coVars, evalParams,
                    outside >>

\* play_one_episode: env.step(act, q_values); the episode is returned when
\* isOver
WorkerStep(w) ==
    /\ wPc[w] = "step"
    /\ \E over \in BOOLEAN :
          LET isOverNow == over \/ wSteps[w] + 1 >= MaxSteps
          IN  /\ wSteps' = [wSteps EXCEPT ![w] = @ + 1]
              /\ wPc' = [wPc EXCEPT ![w] = IF isOverNow THEN "put_q" ELSE "predict"]
              /\ wEpisodes' = [wEpisodes EXCEPT ![w] = IF isOverNow THEN @ + 1 ELSE @]
    /\ UNCHANGED << wStop, queues, stats, coVars, evalParams, outside >>

\* queue_put_stoppable(self.q, score): while not self.stopped()
WorkerPutQTest(w) ==
    /\ wPc[w] = "put_q"
    /\ wPc' = [wPc EXCEPT ![w] = IF wStop[w] THEN "put_dist" ELSE "putting_q"]
    /\ UNCHANGED << wSteps, wEpisodes, wStop, queues, stats, coVars, evalParams,
                    outside >>

\* queue_put_stoppable(self.q, score): q.put(obj, timeout=5); break
WorkerPutQ(w) ==
    /\ wPc[w] = "putting_q"
    /\ q' = Append(q, Result(w))
    /\ putQ' = putQ \cup { Result(w) }
    /\ wPc' = [wPc EXCEPT ![w] = "put_dist"]
    /\ UNCHANGED << wSteps, wEpisodes, wStop, q_dist, putDist, stats, coVars,
                    evalParams, outside >>

\* queue_put_stoppable(self.q_dist, ditance_error): while not self.stopped()
WorkerPutDistTest(w) ==
    /\ wPc[w] = "put_dist"
    /\ wPc' = [wPc EXCEPT ![w] = IF wStop[w] THEN "loop" ELSE "putting_dist"]
    /\ UNCHANGED << wSteps, wEpisodes, wStop, queues, stats, coVars, evalParams,
                    outside >>

\* queue_put_stoppable(self.q_dist, ditance_error): q.put(obj, timeout=5); break
WorkerPutDist(w) ==
    /\ wPc[w] = "putting_dist"
    /\ q_dist' = Append(q_dist, Result(w))
    /\ putDist' = putDist \cup { Result(w) }
    /\ wPc' = [wPc EXCEPT ![w] = "loop"]
    /\ UNCHANGED << wSteps, wEpisodes, wStop, q, putQ, stats, coVars, evalParams,
                    outside >>

Worker(w) ==
    \/ WorkerLoop(w)
    \/ WorkerPredict(w)
    \/ WorkerStep(w)
    \/ WorkerPutQTest(w)
    \/ WorkerPutQ(w)
    \/ WorkerPutDistTest(w)
    \/ WorkerPutDist(w)

\* run has ended
Terminated(w) == wPc[w] \in {"finished", "returned", "crashed"}

(* eval_with_funcs, the caller *)

\* Joined that does not wait for the thread
JoinedAlways(w) == TRUE

\* k.join() returns once the thread has ended
Joined(w) == Terminated(w)

\* for k in threads: k.start()
EvalStart ==
    /\ coPc = "start"
    /\ IF coK < threads
         THEN /\ wPc' = [wPc EXCEPT ![coK + 1] = "loop"]
              /\ coK' = coK + 1
              /\ coPc' = coPc
         ELSE /\ coPc' = "get_q"
              /\ coK' = 0
              /\ wPc' = wPc
    /\ UNCHANGED << ret, wSteps, wEpisodes, wStop, queues, stats, evalParams,
                    outside >>

\* for _ in range(nr_eval): r = q.get(); stat.feed(r)
EvalGetQ ==
    /\ coPc = "get_q"
    /\ IF coK < nr_eval
         THEN /\ q # << >>
              /\ stat' = Append(stat, Head(q))
              /\ q' = Tail(q)
              /\ coPc' = "get_dist"
              /\ coK' = coK
         ELSE /\ coPc' = "stop"
              /\ coK' = 0
              /\ UNCHANGED << q, stat >>
    /\ UNCHANGED << ret, dist_stat, q_dist, putQ, putDist, workerVars, wStop,
                    evalParams, outside >>

\* dist = q_dist.get(); dist_stat.feed(dist)
EvalGetDist ==
    /\ coPc = "get_dist"
    /\ q_dist # << >>
    /\ dist_stat' = Append(dist_stat, Head(q_dist))
    /\ q_dist' = Tail(q_dist)
    /\ coPc' = "get_q"
    /\ coK' = coK + 1
    /\ UNCHANGED << ret, stat, q, putQ, putDist, workerVars, wStop, evalParams,
                    outside >>

\* for k in threads: k.stop()
EvalStop ==
    /\ coPc = "stop"
    /\ IF coK < threads
         THEN /\ wStop' = [wStop EXCEPT ![coK + 1] = TRUE]
              /\ coK' = coK + 1
              /\ coPc' = coPc
         ELSE /\ coPc' = "join"
              /\ coK' = 0
              /\ wStop' = wStop
    /\ UNCHANGED << ret, workerVars, queues, stats, evalParams, outside >>

\* for k in threads: k.join()
EvalJoin ==
    /\ coPc = "join"
    /\ IF coK < threads
         THEN /\ Joined(coK + 1)
              /\ coK' = coK + 1
              /\ coPc' = coPc
         ELSE /\ coPc' = "drain_q"
              /\ coK' = 0
    /\ UNCHANGED << ret, workerVars, wStop, queues, stats, evalParams, outside >>

\* while q.qsize(): r = q.get(); stat.feed(r)
EvalDrainQ ==
    /\ coPc = "drain_q"
    /\ IF Len(q) # 0
         THEN /\ stat' = Append(stat, Head(q))
              /\ q' = Tail(q)
              /\ coPc' = coPc
         ELSE /\ coPc' = "drain_dist"
              /\ UNCHANGED << q, stat >>
    /\ UNCHANGED << ret, coK, dist_stat, q_dist, putQ, putDist, workerVars, wStop,
                    evalParams, outside >>

\* while q_dist.qsize(): dist = q_dist.get(); dist_stat.feed(dist); then
\* return the statistics if stat.count > 0, else (0, 0, 0, 0)
EvalDrainDist ==
    /\ coPc = "drain_dist"
    /\ IF Len(q_dist) # 0
         THEN /\ dist_stat' = Append(dist_stat, Head(q_dist))
              /\ q_dist' = Tail(q_dist)
              /\ coPc' = coPc
              /\ ret' = ret
         ELSE /\ coPc' = "returned"
              /\ ret' = IF Len(stat) > 0 THEN "statistics" ELSE "zeros"
              /\ UNCHANGED << q_dist, dist_stat >>
    /\ UNCHANGED << coK, stat, q, putQ, putDist, workerVars, wStop, evalParams,
                    outside >>

Coordinator ==
    \/ EvalStart
    \/ EvalGetQ
    \/ EvalGetDist
    \/ EvalStop
    \/ EvalJoin
    \/ EvalDrainQ
    \/ EvalDrainDist

NextEval ==
    \/ Coordinator
    \/ \E w \in Workers : Worker(w)

SpecEval == InitEval /\ [][NextEval]_vars

\* every thread that can take a step is scheduled in the end
SpecEvalFair ==
    /\ InitEval
    /\ [][NextEval]_vars
    /\ WF_vars(Coordinator)
    /\ \A w \in Workers : WF_vars(Worker(w))

----------------------------------------------------------------------------
(***************************************************************************)
(* The periodic triggers: ExpReplay._trigger (expreplay.py) and            *)
(* Evaluator._trigger (common.py), which the trainer calls one at a time.  *)
(* _populate_exp feeds the two counters of ExpReplay when an episode ends, *)
(* from SimulatorThread, so at any point of a trigger.  An exception that  *)
(* leaves _trigger ends the run: trPc = "raised".                          *)
(***************************************************************************)

\* Bound of the model: the number of triggers that return.
MaxTriggers == 2

\* Bound of the model: the number of episodes that end.
MaxGames == 2

\* the scalars ExpReplay._trigger puts inside its try statement
ScoreScalars == { "expreplay/mean_score", "expreplay/max_score",
                  "expreplay/mean_dist", "expreplay/max_dist" }

\* the scalars ExpReplay._trigger puts after its try statement
PlayerScalars == { "n_games", "n_success", "n_success_ratio" }

\* the scalars Evaluator._trigger puts
EvalScalars == { "mean_score", "max_score", "mean_distance", "max_distance" }

Scalars == ScoreScalars \cup PlayerScalars \cup EvalScalars

\* what may go wrong in one trigger: nothing, or the emission of one scalar
Failures == { {} } \cup { { s } : s \in Scalars }

\* Evaluator(nr_eval, ...)
EvalEpisodes == { 1, 50 }

InitTrigger ==
    /\ MemoryIdle
    /\ ReplayIdle
    /\ EvalIdle
    /\ trPc = "idle"
    /\ failing = {}
    /\ player_scores = << >>
    /\ player_distError = << >>
    /\ num_games = 0
    /\ num_success = 0
    /\ eval_episode \in EvalEpisodes
    /\ emitted = << >>
    /\ logged = FALSE
    /\ triggers = 0
    /\ games = 0
    /\ reports = << >>

\* what the triggers leave alone
untriggered == << mem, params, history, last, replay, evaluation >>
counters == << player_scores, player_distError >>
playerStat == << num_games, num_success >>

\* _populate_exp, isOver: self._player_scores.feed(info["score"]);
\* self._player_distError.feed(info["distError"]); the player counts the game,
\* and the success if the target was reached
EpisodeOver ==
    /\ trPc \notin {"none", "raised"}
    /\ games < MaxGames
    /\ games' = games + 1
    /\ player_scores' = Append(player_scores, games + 1)
    /\ player_distError' = Append(player_distError, games + 1)
    /\ num_games' = num_games + 1
    /\ \E success \in BOOLEAN :
          num_success' = IF success THEN num_success + 1 ELSE num_success
    /\ UNCHANGED << trPc, failing, eval_episode, emitted, logged, reports, triggers,
                    untriggered >>

\* the trainer calls the _trigger of one of the two callbacks
TriggerCall ==
    /\ trPc = "idle"
    /\ triggers < MaxTriggers
    /\ \E f \in Failures : failing' = f
    /\ \E first \in {"mean_score", "eval"} : trPc' = first
    /\ emitted' = << >>
    /\ logged' = FALSE
    /\ UNCHANGED << counters, playerStat, eval_episode, triggers, games,
                    reports, untriggered >>

\* Caught with no try statement at all
CaughtNever(name) == FALSE

\* put_scalar(name, ...) stands inside a try ... except Exception
Caught(name) == name \in ScoreScalars

\* self.trainer.monitors.put_scalar(name, value), with what follows it: the
\* next statement, the except clause (logger.exception, then the statement
\* after the try), or the caller of _trigger
PutScalar(name, value, next, handler) ==
    IF name \in failing
      THEN /\ emitted' = emitted
           /\ reports' = reports
           /\ IF Caught(name)
                THEN logged' = TRUE /\ trPc' = handler
                ELSE logged' = logged /\ trPc' = "raised"
      ELSE /\ emitted' = Append(emitted, << name, value >>)
           /\ reports' = IF name = "expreplay/mean_score"
                            THEN Append(reports, value) ELSE reports
           /\ logged' = logged
           /\ trPc' = next

\* StatCounter.average and StatCounter.max fail on a counter nothing was fed to
\* since its reset; inside the try statement
Statistics(counter, name, next) ==
    IF counter = << >>
      THEN emitted' = emitted /\ reports' = reports /\ logged' = TRUE /\ trPc' = "reset"
      ELSE PutScalar(name, counter, next, "reset")

(* ExpReplay._trigger *)

\* mean, max = v.average, v.max; put_scalar("expreplay/mean_score", mean)
TriggerMeanScore ==
    /\ trPc = "mean_score"
    /\ Statistics(player_scores, "expreplay/mean_score", "max_score")
    /\ UNCHANGED << failing, counters, playerStat, eval_episode, triggers, games,
                    untriggered >>

\* put_scalar("expreplay/max_score", max)
TriggerMaxScore ==
    /\ trPc = "max_score"
    /\ PutScalar("expreplay/max_score", player_scores, "mean_dist", "reset")
    /\ UNCHANGED << failing, counters, playerStat, eval_episode, triggers, games,
                    untriggered >>

\* mean, max = dist.average, dist.max; put_scalar("expreplay/mean_dist", mean)
TriggerMeanDist ==
    /\ trPc = "mean_dist"
    /\ Statistics(player_distError, "expreplay/mean_dist", "max_dist")
    /\ UNCHANGED << failing, counters, playerStat, eval_episode, triggers, games,
                    untriggered >>

\* put_scalar("expreplay/max_dist", max)
TriggerMaxDist ==
    /\ trPc = "max_dist"
    /\ PutScalar("expreplay/max_dist", player_distError, "reset", "reset")
    /\ UNCHANGED << failing, counters, playerStat, eval_episode, triggers, games,
                    untriggered >>

\* v.reset(); dist.reset()
TriggerReset ==
    /\ trPc = "reset"
    /\ player_scores' = << >>
    /\ player_distError' = << >>
    /\ trPc' = "n_games"
    /\ UNCHANGED << failing, playerStat, eval_episode, emitted, logged, reports, triggers,
                    games, untriggered >>

\* put_scalar("n_games", num_games.sum if num_games.count else 0)
TriggerGames ==
    /\ trPc = "n_games"
    /\ PutScalar("n_games", IF num_games # 0 THEN num_games ELSE 0, "n_success",
                 "n_success")
    /\ UNCHANGED << failing, counters, playerStat, eval_episode, triggers, games,
                    untriggered >>

\* put_scalar("n_success", num_success.sum if num_success.count else 0)
TriggerSuccess ==
    /\ trPc = "n_success"
    /\ PutScalar("n_success", IF num_success # 0 THEN num_success ELSE 0,
                 "n_success_ratio", "n_success_ratio")
    /\ UNCHANGED << failing, counters, playerStat, eval_episode, triggers, games,
                    untriggered >>

\* put_scalar("n_success_ratio", num_success.sum / num_games.sum if
\* num_success.count else 0); the ratio is kept as the pair of its terms
TriggerRatio ==
    /\ trPc = "n_success_ratio"
    /\ PutScalar("n_success_ratio",
                 IF num_success # 0 THEN << num_success, num_games >> ELSE 0,
                 "reset_stat", "reset_stat")
    /\ UNCHANGED << failing, counters, playerStat, eval_episode, triggers, games,
                    untriggered >>

\* self.player.reset_stat(); _trigger returns
TriggerResetStat ==
    /\ trPc = "reset_stat"
    /\ num_games' = 0
    /\ num_success' = 0
    /\ trPc' = "idle"
    /\ triggers' = triggers + 1
    /\ UNCHANGED << failing, counters, eval_episode, emitted, logged, reports,
                    games, untriggered >>

(* Evaluator._trigger *)

\* int(self.eval_episode * 0.94)
Shortened(episodes) == (episodes * 94) \div 100

\* eval_with_funcs(...); if t > 10 * 60: self.eval_episode = int(... * 0.94)
EvaluatorEval ==
    /\ trPc = "eval"
    /\ \E slow \in BOOLEAN :
          eval_episode' = IF slow THEN Shortened(eval_episode) ELSE eval_episode
    /\ trPc' = "ev_mean_score"
    /\ UNCHANGED << failing, counters, playerStat, emitted, logged, reports, triggers,
                    games, untriggered >>

\* put_scalar("mean_score", mean_score)
EvaluatorMeanScore ==
    /\ trPc = "ev_mean_score"
    /\ PutScalar("mean_score", "mean_score", "ev_max_score", "ev_max_score")
    /\ UNCHANGED << failing, counters, playerStat, eval_episode, triggers, games,
                    untriggered >>

\* put_scalar("max_score", max_score)
EvaluatorMaxScore ==
    /\ trPc = "ev_max_score"
    /\ PutScalar("max_score", "max_score", "ev_mean_distance", "ev_mean_distance")
    /\ UNCHANGED << failing, counters, playerStat, eval_episode, triggers, games,
                    untriggered >>

\* put_scalar("mean_distance", mean_dist)
EvaluatorMeanDistance ==
    /\ trPc = "ev_mean_distance"
    /\ PutScalar("mean_distance", "mean_dist", "ev_max_distance", "ev_max_distance")
    /\ UNCHANGED << failing, counters, playerStat, eval_episode, triggers, games,
                    untriggered >>

\* put_scalar("max_distance", max_dist); _trigger returns
EvaluatorMaxDistance ==
    /\ trPc = "ev_max_distance"
    /\ PutScalar("max_distance", "max_dist", "idle", "idle")
    /\ triggers' = IF trPc' = "idle" THEN triggers + 1 ELSE triggers
    /\ UNCHANGED << failing, counters, playerStat, eval_episode, games,
                    untriggered >>

NextTrigger ==
    \/ EpisodeOver
    \/ TriggerCall
    \/ TriggerMeanScore
    \/ TriggerMaxScore
    \/ TriggerMeanDist
    \/ TriggerMaxDist
    \/ TriggerReset
    \/ TriggerGames
    \/ TriggerSuccess
    \/ TriggerRatio
    \/ TriggerResetStat
    \/ EvaluatorEval
    \/ EvaluatorMeanScore
    \/ EvaluatorMaxScore
    \/ EvaluatorMeanDistance
    \/ EvaluatorMaxDistance

SpecTrigger == InitTrigger /\ [][NextTrigger]_vars

----------------------------------------------------------------------------
(* Properties of eval_with_funcs *)

\* the elements of a sequence
Range(s) == { s[i] : i \in DOMAIN s }

\* no element of a sequence comes twice
NoRepeat(s) == \A i, j \in DOMAIN s : s[i] = s[j] => i = j

\* C18: evaluator drain.  When eval_with_funcs has returned, q and q_dist are
\* empty, every score put on q was fed to stat exactly once and every distance
\* error put on q_dist was fed to dist_stat exactly once, stat holds at least
\* nr_eval scores, and every Worker has ended, so none puts a result later.
C18_Drain ==
    coPc = "returned" =>
        /\ q = << >>
        /\ q_dist = << >>
        /\ Range(stat) = putQ
        /\ NoRepeat(stat)
        /\ Range(dist_stat) = putDist
        /\ NoRepeat(dist_stat)
        /\ Len(stat) >= nr_eval
        /\ Len(dist_stat) >= nr_eval
        /\ \A w \in 1 .. threads : Terminated(w)

\* C18 witness: eval_with_funcs has returned after its final drain fed more
\* scores than the nr_eval its loop took
C18_Witness ==
    /\ coPc = "returned"
    /\ threads = 2
    /\ nr_eval >= 1
    /\ Len(stat) > nr_eval
    /\ Len(dist_stat) > nr_eval

\* Worker w has been stopped and is at a call of the predictor
StoppedAtCall(w) == wStop[w] /\ wPc[w] = "predict"

C24_Paired ==
    coPc = "returned" =>
        /\ Len(stat) = Len(dist_stat)
        /\ Range(stat) = Range(dist_stat)

----------------------------------------------------------------------------
(* Properties of the triggers *)

\* C20 as stated: a failure while a trigger emits any of its scalars is caught
\* and logged, and never leaves the trigger.
C20_NoPropagation == trPc # "raised"

\* where ExpReplay._trigger is inside its try statement
ScorePhase == { "mean_score", "max_score", "mean_dist", "max_dist" }

\* the try statement, and the statement after it
LeavesToReset == ScorePhase \cup { "reset" }

\* C26: every call of ExpReplay._trigger resets both counters, also when
\* computing or emitting the score scalars raised: the try statement is left
\* for the two resets only, the resets empty both counters, nothing after them
\* is reached without them, and so no episode's score is covered by the
\* expreplay/mean_score of two triggers.
C26_ResetAlways ==
    /\ [][ (trPc \in ScorePhase) => (trPc' \in LeavesToReset) ]_vars
    /\ [][ (trPc = "reset" /\ trPc' # "reset") =>
              /\ trPc' = "n_games"
              /\ player_scores' = << >>
              /\ player_distError' = << >> ]_vars
    /\ [][ (trPc' = "n_games" /\ trPc # "n_games") => trPc = "reset" ]_vars
    /\ [](\A a, b \in DOMAIN reports :
              a # b => Range(reports[a]) \cap Range(reports[b]) = {})

\* C26 witness: the second trigger found no episode finished since the first,
\* which had reported one; computing the mean raised, was logged, and the
\* counters were reset all the same
C26_Witness ==
    /\ trPc = "n_games"
    /\ triggers = 1
    /\ Len(reports) = 1
    /\ failing = {}
    /\ logged
    /\ emitted = << >>
    /\ player_scores = << >>
    /\ player_distError = << >>

====
